---- MODULE Spec2Model ----
(***************************************************************************)
(* A model of docset_gen.py: the Doxygen HTML parser (HTMLParser), the     *)
(* regular-expression name extraction (parse_declaration) and the index    *)
(* writer of main (take_db, the insert loop under "with db:").             *)
(*                                                                         *)
(* Three specifications share the module:                                  *)
(*   SpecDecl  parse_declaration applied to bounded signature texts;       *)
(*   SpecPage  HTMLParser.parse applied to one bounded page, one group of  *)
(*             the groupby per step;                                       *)
(*   Spec      main: take_db, the extraction loop, the insert loop.        *)
(* Text is a sequence of one-character strings; a path is a sequence of    *)
(* string pieces (path, "#", anchor id), so concatenation is \o.           *)
(***************************************************************************)
EXTENDS Naturals, Sequences, FiniteSets

VARIABLES
    text,       \* parse_declaration: the signature text
    type_,      \* parse_declaration: the symbol kind
    result,     \* parse_declaration: pending, or the returned name / the raise
    contents,   \* HTMLParser: what soup.find('div', class contents) gave
    gi,         \* HTMLParser.parse: the index of the next group of the groupby
    records,    \* HTMLParser.parse: the records yielded so far
    pstatus,    \* HTMLParser.parse: running, done, or the exception raised
    pc,                 \* main: where the run is
    file_path_list,     \* main: the pages glob found, in its order
    fi,                 \* main: the index of the page being extracted
    insert_data_list,   \* main: the records collected
    ii,                 \* main: the index of the record being inserted
    searchIndex,        \* the rows of the table as the connection sees them
    committed           \* the rows of the table that are durable

declVars == <<text, type_, result>>
pageVars == <<contents, gi, records, pstatus>>
mainVars == <<pc, file_path_list, fi, insert_data_list, ii, searchIndex, committed>>
vars == <<declVars, pageVars, mainVars>>

(***************************************************************************)
(* Bounds: the tokens of a signature text, the children of a page's        *)
(* contents div, the pages of a run.                                       *)
(***************************************************************************)
MaxToks == 4
MaxElems == 4
MaxPages == 2

\* The greatest and the least element of a non-empty set of numbers.
Max(S) == CHOOSE x \in S : \A y \in S : y <= x

Min(S) == CHOOSE x \in S : \A y \in S : x <= y

(***************************************************************************)
(* Characters. \w and \s under re.UNICODE, restricted to the characters    *)
(* the model's texts are made of.                                          *)
(***************************************************************************)
None == "<None>"

WordChars ==
    {"d", "e", "f", "i", "n", "t", "y", "p", "F", "o", "b", "v", "O", "_", "1"}

SpaceChars == {" ", "\n"}

InClass(c, cls) ==
    CASE cls = "w" -> c \in WordChars
      [] cls = "s" -> c \in SpaceChars
      [] cls = "any" -> TRUE

\* The number of consecutive characters of class cls in t from position pos.
RECURSIVE RunLen(_, _, _)
RunLen(t, pos, cls) ==
    IF pos > Len(t) THEN 0
    ELSE IF InClass(t[pos], cls) THEN 1 + RunLen(t, pos + 1, cls)
    ELSE 0

StartsWith(t, pos, lit) ==
    /\ pos + Len(lit) - 1 <= Len(t)
    /\ \A k \in 1..Len(lit) : t[pos + k - 1] = lit[k]

\* "$" without re.MULTILINE: the end of the text, or just before a final newline.
AtEnd(t, pos) ==
    \/ pos = Len(t) + 1
    \/ pos = Len(t) /\ t[pos] = "\n"

(***************************************************************************)
(* A backtracking matcher with Python's re.match priorities.  A pattern is *)
(* a sequence of nodes:                                                    *)
(*   lit   a literal;            rep   a character class repeated, min 0   *)
(*   or 1, greedy or lazy;       open/close   a named group;               *)
(*   opt   a greedy optional group (?:...)? whose body ends before node    *)
(*   skip;                       end   "$".                                *)
(***************************************************************************)
Lit(s) == [k |-> "lit", lit |-> s, c |-> "", min |-> 0, greedy |-> TRUE, g |-> "", skip |-> 0]
Rep(cls, mn, gr) == [k |-> "rep", lit |-> <<>>, c |-> cls, min |-> mn, greedy |-> gr, g |-> "", skip |-> 0]
Open(name) == [k |-> "open", lit |-> <<>>, c |-> "", min |-> 0, greedy |-> TRUE, g |-> name, skip |-> 0]
Close(name) == [k |-> "close", lit |-> <<>>, c |-> "", min |-> 0, greedy |-> TRUE, g |-> name, skip |-> 0]
Opt(to) == [k |-> "opt", lit |-> <<>>, c |-> "", min |-> 0, greedy |-> TRUE, g |-> "", skip |-> to]
End == [k |-> "end", lit |-> <<>>, c |-> "", min |-> 0, greedy |-> TRUE, g |-> "", skip |-> 0]

GroupNames == {"name", "fn_modifier", "fn_type", "fn_name"}

NoMatch == [ok |-> FALSE, caps |-> [g \in GroupNames |-> <<0, 0>>]]

RECURSIVE Match(_, _, _, _, _), TryRep(_, _, _, _, _, _, _)
Match(re, t, i, pos, caps) ==
    IF i > Len(re) THEN [ok |-> TRUE, caps |-> caps]
    ELSE LET n == re[i] IN
      CASE n.k = "lit" ->
             IF StartsWith(t, pos, n.lit)
             THEN Match(re, t, i + 1, pos + Len(n.lit), caps)
             ELSE NoMatch
        [] n.k = "rep" ->
             LET run == RunLen(t, pos, n.c) IN
             IF run < n.min THEN NoMatch
             ELSE TryRep(re, t, i, pos, caps, IF n.greedy THEN run ELSE n.min, run)
        [] n.k = "open" ->
             Match(re, t, i + 1, pos, [caps EXCEPT ![n.g] = <<pos, @[2]>>])
        [] n.k = "close" ->
             Match(re, t, i + 1, pos, [caps EXCEPT ![n.g] = <<@[1], pos>>])
        [] n.k = "opt" ->
             LET with == Match(re, t, i + 1, pos, caps) IN
             IF with.ok THEN with ELSE Match(re, t, n.skip, pos, caps)
        [] n.k = "end" ->
             IF AtEnd(t, pos) THEN Match(re, t, i + 1, pos, caps) ELSE NoMatch

\* Node i, a repetition, taking cnt characters; on failure the next count in
\* the node's order (greedy: fewer, lazy: more).
TryRep(re, t, i, pos, caps, cnt, run) ==
    LET r == Match(re, t, i + 1, pos + cnt, caps) IN
    IF r.ok THEN r
    ELSE IF re[i].greedy
         THEN IF cnt > re[i].min THEN TryRep(re, t, i, pos, caps, cnt - 1, run) ELSE NoMatch
         ELSE IF cnt < run THEN TryRep(re, t, i, pos, caps, cnt + 1, run) ELSE NoMatch

\* regex.match(text): anchored at the start of the text.
re_match(re, t) == Match(re, t, 1, 1, [g \in GroupNames |-> <<0, 0>>])

\* match.group(name)
group(m, t, name) == SubSeq(t, m.caps[name][1], m.caps[name][2] - 1)

(***************************************************************************)
(* regexs                                                                  *)
(***************************************************************************)
S_define == <<"#", "d", "e", "f", "i", "n", "e">>
S_typedef == <<"t", "y", "p", "e", "d", "e", "f">>

\* .*(?P<name>\w+)\s*$ : the leading .* greedy.
regex_last_word_greedy ==
    << Rep("any", 0, TRUE), Open("name"), Rep("w", 1, TRUE), Close("name"),
       Rep("s", 0, TRUE), End >>

\* .*?(?P<name>\w+)\s*$
regex_last_word ==
    << Rep("any", 0, FALSE), Open("name"), Rep("w", 1, TRUE), Close("name"),
       Rep("s", 0, TRUE), End >>

\* ^\s*\#define\s+(?P<name>\w+)\s*.*$ : no whitespace needed after the name.
regex_macro_no_space ==
    << Rep("s", 0, TRUE), Lit(S_define), Rep("s", 1, TRUE),
       Open("name"), Rep("w", 1, TRUE), Close("name"),
       Rep("s", 0, TRUE), Rep("any", 0, TRUE), End >>

\* ^\s*\#define\s+(?P<name>\w+)\s+.*$
regex_macro ==
    << Rep("s", 0, TRUE), Lit(S_define), Rep("s", 1, TRUE),
       Open("name"), Rep("w", 1, TRUE), Close("name"),
       Rep("s", 1, TRUE), Rep("any", 0, TRUE), End >>

\* ^\s*(?:(?P<fn_modifier>\w+)\s+)?(?P<fn_type>\w+(?:\s*\*)?)\s+(?P<fn_name>\w+)\s*\(.*$
regex_function ==
    << Rep("s", 0, TRUE),
       Opt(7), Open("fn_modifier"), Rep("w", 1, TRUE), Close("fn_modifier"), Rep("s", 1, TRUE),
       Open("fn_type"), Rep("w", 1, TRUE), Opt(12), Rep("s", 0, TRUE), Lit(<<"*">>),
       Close("fn_type"), Rep("s", 1, TRUE),
       Open("fn_name"), Rep("w", 1, TRUE), Close("fn_name"), Rep("s", 0, TRUE),
       Lit(<<"(">>), Rep("any", 0, TRUE), End >>

\* ^\s*typedef\s+(?P<fn_type>\w+)\s*\(\*\s+(?P<fn_name>\w+)\s*\)\(.*$
regex_typedef_function ==
    << Rep("s", 0, TRUE), Lit(S_typedef), Rep("s", 1, TRUE),
       Open("fn_type"), Rep("w", 1, TRUE), Close("fn_type"), Rep("s", 0, TRUE),
       Lit(<<"(", "*">>), Rep("s", 1, TRUE),
       Open("fn_name"), Rep("w", 1, TRUE), Close("fn_name"), Rep("s", 0, TRUE),
       Lit(<<")", "(">>), Rep("any", 0, TRUE), End >>

\* ^\s*typedef\s+.*?(?P<name>\w+)\s*$
regex_typedef ==
    << Rep("s", 0, TRUE), Lit(S_typedef), Rep("s", 1, TRUE), Rep("any", 0, FALSE),
       Open("name"), Rep("w", 1, TRUE), Close("name"), Rep("s", 0, TRUE), End >>

(***************************************************************************)
(* parse_declaration: the name, or the raise of match.group on None.       *)
(***************************************************************************)
Raise == [ok |-> FALSE, name |-> <<>>]
Return(nm) == [ok |-> TRUE, name |-> nm]

GroupOrRaise(m, t, name) == IF m.ok THEN Return(group(m, t, name)) ELSE Raise

Types == {"Function", "Struct", "Type", "Enum", "Macro"}

parse_declaration(ty, t) ==
    CASE ty = "Function" -> GroupOrRaise(re_match(regex_function, t), t, "fn_name")
      [] ty = "Macro" -> GroupOrRaise(re_match(regex_macro, t), t, "name")
      [] ty \in {"Struct", "Enum"} -> GroupOrRaise(re_match(regex_last_word, t), t, "name")
      [] ty = "Type" ->
           LET match_fn == re_match(regex_typedef_function, t)
               match == re_match(regex_typedef, t)
               match_last_word == re_match(regex_last_word, t)
           IN  IF match_fn.ok THEN Return(group(match_fn, t, "fn_name"))
               ELSE IF match.ok THEN Return(group(match, t, "name"))
               ELSE GroupOrRaise(match_last_word, t, "name")

(***************************************************************************)
(* Page elements: the direct children of the contents div, as bs4 shows    *)
(* them.  name is the tag name (None for a NavigableString), class the     *)
(* class list, id the id attribute (None when absent), string is           *)
(* el.string, proto the result of the two nested finds of a declaration:   *)
(* <<>> when div.memproto is missing, << <<>> >> when table.memname is     *)
(* missing, << <<text>> >> otherwise.                                      *)
(***************************************************************************)
Element(nm, cls, id, str, proto) ==
    [name |-> nm, class |-> cls, id |-> id, string |-> str, proto |-> proto]

Header(label) == Element("h2", {"groupheader"}, None, label, <<>>)
Anchor(id) == Element("a", {"anchor"}, id, None, <<>>)
Decl(txt) == Element("div", {"memitem"}, None, None, << <<txt>> >>)
DeclNoProto == Element("div", {"memitem"}, None, None, <<>>)
TextNode == Element(None, {}, None, None, <<>>)

is_tag(element) == element.name # None

is_group_header(element) == is_tag(element) /\ "groupheader" \in element.class

is_anchor(element) == is_tag(element) /\ element.name = "a"

is_declaration(element) ==
    is_tag(element) /\ element.name = "div" /\ "memitem" \in element.class

(***************************************************************************)
(* HTMLParser                                                              *)
(***************************************************************************)
section_type_map ==
    [ n \in { "Function Documentation", "Data Structure Documentation",
              "Typedef Documentation", "Enumeration Type Documentation",
              "Macro Definition Documentation" } |->
        CASE n = "Function Documentation" -> "Function"
          [] n = "Data Structure Documentation" -> "Struct"
          [] n = "Typedef Documentation" -> "Type"
          [] n = "Enumeration Type Documentation" -> "Enum"
          [] n = "Macro Definition Documentation" -> "Macro" ]

sections_to_skip_unset_only == {None}

sections_to_skip == {"Detailed Description", None}

\* The (group_name, el) pairs the iterator yields for the children from
\* position i on, group_name being the label in effect before child i.
RECURSIVE sections_elements_iterator(_, _, _)
sections_elements_iterator(children, i, group_name) ==
    IF i > Len(children) THEN <<>>
    ELSE LET el == children[i]
             nm == IF is_tag(el) /\ is_group_header(el) THEN el.string ELSE group_name
         IN  << <<nm, el>> >> \o sections_elements_iterator(children, i + 1, nm)

\* A grouping that merges every pair of equal key, adjacent or not.
RECURSIVE groupby_merging(_, _)
groupby_merging(pairs, acc) ==
    IF pairs = <<>> THEN acc
    ELSE LET p == Head(pairs)
             same == {g \in 1..Len(acc) : acc[g].name = p[1]}
         IN  IF same # {}
             THEN groupby_merging(Tail(pairs),
                      [acc EXCEPT ![CHOOSE g \in same : TRUE].elements = Append(@, p[2])])
             ELSE groupby_merging(Tail(pairs),
                      Append(acc, [name |-> p[1], elements |-> <<p[2]>>]))

\* itertools.groupby(pairs, key=itemgetter(0)) with each group made a list of
\* its elements: a new group starts whenever the key changes.
RECURSIVE groupby(_, _)
groupby(pairs, acc) ==
    IF pairs = <<>> THEN acc
    ELSE LET p == Head(pairs) IN
         IF acc # <<>> /\ acc[Len(acc)].name = p[1]
         THEN groupby(Tail(pairs),
                      [acc EXCEPT ![Len(acc)].elements = Append(@, p[2])])
         ELSE groupby(Tail(pairs), Append(acc, [name |-> p[1], elements |-> <<p[2]>>]))

Groups(children) == groupby(sections_elements_iterator(children, 1, None), <<>>)

SearchIndexData(nm, ty, path) == [name |-> nm, type |-> ty, path |-> path]

\* path, plus f"#{anchor_id}" "if anchor_id:" (None and "" are falsy).
LocationUnchecked(path, anchor_id) == path \o <<"#", anchor_id>>

Location(path, anchor_id) ==
    IF anchor_id \notin {None, ""} THEN path \o <<"#", anchor_id>> ELSE path

\* The loop of parse_section from element i on: the records yielded and the
\* exception that ended the loop ("" when it ran to the end).
RECURSIVE ScanElements(_, _, _, _, _, _)
ScanElements(elements, i, anchor_id, ty, path, acc) ==
    IF i > Len(elements) THEN [records |-> acc, error |-> ""]
    ELSE LET element == elements[i] IN
         IF is_anchor(element)
         THEN ScanElements(elements, i + 1, element.id, ty, path, acc)
         ELSE IF ~is_declaration(element)
         THEN ScanElements(elements, i + 1, anchor_id, ty, path, acc)
         ELSE IF element.proto = <<>> \/ element.proto[1] = <<>>
         THEN [records |-> acc, error |-> "AttributeError"]
         ELSE LET declaration == element.proto[1][1]
                  obj_name == parse_declaration(ty, declaration)
                  loc == Location(path, anchor_id)
              IN  IF ~obj_name.ok
                  THEN [records |-> acc, error |-> "AttributeError"]
                  ELSE ScanElements(elements, i + 1, anchor_id, ty, path,
                                    Append(acc, SearchIndexData(obj_name.name, ty, loc)))

\* parse_section looking the kind up only when a declaration needs it.
parse_section_lazy_lookup(name, elements, path) ==
    IF name \in sections_to_skip THEN [records |-> <<>>, error |-> ""]
    ELSE IF name \notin DOMAIN section_type_map
    THEN [records |-> <<>>,
          error |-> IF \E i \in 1..Len(elements) : is_declaration(elements[i])
                    THEN "KeyError" ELSE ""]
    ELSE ScanElements(elements, 1, None, section_type_map[name], path, <<>>)

parse_section(name, elements, path) ==
    IF name \in sections_to_skip THEN [records |-> <<>>, error |-> ""]
    ELSE IF name \notin DOMAIN section_type_map
    THEN [records |-> <<>>, error |-> "KeyError"]
    ELSE ScanElements(elements, 1, None, section_type_map[name], path, <<>>)

\* HTMLParser(...).parse() run to its end from group g on: what extend() has
\* appended when it returns or raises.
RECURSIVE ParseGroups(_, _, _, _)
ParseGroups(groups, g, path, acc) ==
    IF g > Len(groups) THEN [records |-> acc, error |-> ""]
    ELSE LET r == parse_section(groups[g].name, groups[g].elements, path) IN
         IF r.error # "" THEN [records |-> acc \o r.records, error |-> r.error]
         ELSE ParseGroups(groups, g + 1, path, acc \o r.records)

parse(page, path) ==
    IF ~page.found THEN [records |-> <<>>, error |-> "TypeError"]
    ELSE ParseGroups(Groups(page.children), 1, path, <<>>)

(***************************************************************************)
(* Each specification runs one part of the program and holds the state    *)
(* of the other parts still.                                               *)
(***************************************************************************)
Pending == [ok |-> FALSE, name |-> <<"?">>]

NoContents == [found |-> FALSE, children |-> <<>>]
Contents(children) == [found |-> TRUE, children |-> children]

IdleDecl ==
    /\ text = <<>>
    /\ type_ = "Function"
    /\ result = Pending

IdlePage ==
    /\ contents = NoContents
    /\ gi = 1
    /\ records = <<>>
    /\ pstatus = "idle"

IdleMain ==
    /\ pc = "idle"
    /\ file_path_list = <<>>
    /\ fi = 1
    /\ insert_data_list = <<>>
    /\ ii = 1
    /\ searchIndex = <<>>
    /\ committed = <<>>

(***************************************************************************)
(* SpecDecl: parse_declaration on every text of at most MaxToks tokens.    *)
(***************************************************************************)
Tokens ==
    { S_define, S_define \o <<" ">>, S_typedef, <<"F", "o", "o">>,
      <<" ">>, <<"\n">>, <<"(">> }

RECURSIVE Flatten(_)
Flatten(ts) == IF ts = <<>> THEN <<>> ELSE Head(ts) \o Flatten(Tail(ts))

TokSeqs == UNION { [1..n -> Tokens] : n \in 0..MaxToks }

Texts == { Flatten(ts) : ts \in TokSeqs }

InitDecl ==
    /\ text \in Texts
    /\ type_ \in Types
    /\ result = Pending

ParseDeclaration ==
    /\ result = Pending
    /\ result' = parse_declaration(type_, text)
    /\ UNCHANGED <<text, type_>>

NextDecl == ParseDeclaration /\ UNCHANGED <<pageVars, mainVars>>

InitSpecDecl == InitDecl /\ IdlePage /\ IdleMain

SpecDecl == InitSpecDecl /\ [][NextDecl]_vars

(***************************************************************************)
(* Properties of parse_declaration, stated on the text without the         *)
(* matcher.                                                                *)
(***************************************************************************)
IsWord(c) == c \in WordChars
IsSpace(c) == c \in SpaceChars

HasWord(t) == \E i \in 1..Len(t) : IsWord(t[i])

\* The last word character of t, and the start of the word-token it ends.
LastWordEnd(t) == Max({i \in 1..Len(t) : IsWord(t[i])})
LastWordStart(t) ==
    CHOOSE a \in 1..LastWordEnd(t) :
        /\ \A j \in a..LastWordEnd(t) : IsWord(t[j])
        /\ a > 1 => ~IsWord(t[a - 1])
FinalWord(t) == SubSeq(t, LastWordStart(t), LastWordEnd(t))

OnlySpaceAfterLastWord(t) == \A i \in (LastWordEnd(t) + 1)..Len(t) : IsSpace(t[i])

\* The first position from pos on that holds no whitespace (no word
\* character), Len(t) + 1 when there is none.
SkipSpace(t, pos) == Min({i \in pos..(Len(t) + 1) : i = Len(t) + 1 \/ ~IsSpace(t[i])})
SkipWord(t, pos) == Min({i \in pos..(Len(t) + 1) : i = Len(t) + 1 \/ ~IsWord(t[i])})

\* t is optional whitespace, "#define", whitespace, an identifier, a rest.
DefineAt(t) == SkipSpace(t, 1)
DefineNameStart(t) == SkipSpace(t, DefineAt(t) + 7)
DefineNameEnd(t) == SkipWord(t, DefineNameStart(t)) - 1
IsDefine(t) ==
    /\ DefineAt(t) + 6 <= Len(t)
    /\ \A j \in 1..7 : t[DefineAt(t) + j - 1] = S_define[j]
    /\ DefineNameStart(t) > DefineAt(t) + 7
    /\ DefineNameEnd(t) >= DefineNameStart(t)
DefineName(t) == SubSeq(t, DefineNameStart(t), DefineNameEnd(t))

\* C8 as stated: for Struct and Enum the final word-token is returned whenever
\* the text has a word-token, whatever follows it, and the call raises only
\* when the text has no word character.
C8_LastWordAlways ==
    (type_ \in {"Struct", "Enum"} /\ result # Pending) =>
        result = IF HasWord(text) THEN Return(FinalWord(text)) ELSE Raise

\* C8 amended: for Struct and Enum the final word-token is returned for every
\* text whose final word-token is followed only by whitespace up to the end of
\* the text, regardless of leading tokens and embedded whitespace or newlines;
\* the call raises on every other text: one with no word character, and one
\* where a non-word, non-whitespace character follows the final word-token.
C8_LastWordIfTrailingSpaceOnly ==
    (type_ \in {"Struct", "Enum"} /\ result # Pending) =>
        result = IF HasWord(text) /\ OnlySpaceAfterLastWord(text)
                 THEN Return(FinalWord(text))
                 ELSE Raise

\* A Struct text with a leading token, a newline and trailing whitespace, whose
\* final word-token was returned.
C8_Witness ==
    /\ type_ = "Struct"
    /\ result = Return(<<"F", "o", "o">>)
    /\ text = S_typedef \o <<"\n">> \o <<"F", "o", "o">> \o <<" ">>

\* C9 as stated: for Macro, NAME is returned for every text '#define NAME rest'
\* (optional leading whitespace, any rest, also an empty one or a parameter
\* list), and the call raises exactly when the text does not start with
\* '#define' followed by an identifier.
C9_MacroNameAnyRest ==
    (type_ = "Macro" /\ result # Pending) =>
        result = IF IsDefine(text) THEN Return(DefineName(text)) ELSE Raise

\* C9 amended: for Macro, NAME is returned for every text '#define NAME rest'
\* (optional leading whitespace, NAME an identifier) in which NAME is followed
\* by at least one whitespace character, whatever comes after that whitespace;
\* the call raises on every other text: one that does not start with '#define'
\* followed by an identifier, and one where NAME ends the text or is followed
\* at once by a non-whitespace character such as '('.
C9_MacroNameIfSpaceFollows ==
    (type_ = "Macro" /\ result # Pending) =>
        result = IF /\ IsDefine(text)
                    /\ DefineNameEnd(text) < Len(text)
                    /\ IsSpace(text[DefineNameEnd(text) + 1])
                 THEN Return(DefineName(text))
                 ELSE Raise

\* '#define Foo (' : the name was returned, a parameter list following the
\* whitespace after it.
C9_Witness ==
    /\ type_ = "Macro"
    /\ text = S_define \o <<" ">> \o <<"F", "o", "o">> \o <<" ", "(">>
    /\ result = Return(<<"F", "o", "o">>)

(***************************************************************************)
(* SpecPage: HTMLParser.parse on one page of at most MaxElems children,    *)
(* the generator advanced one group at a time.                             *)
(***************************************************************************)
T_fn == <<"i", "n", "t", " ", "f", "o", "o", "(">>
T_bad == <<";">>

PageElements ==
    { Header("Function Documentation"), Header("Detailed Description"),
      Header("Variable Documentation"), Header(None),
      Anchor("ga1"), Anchor("ga2"), Anchor(""), Anchor(None),
      Decl(T_fn), Decl(T_bad), TextNode }

Pages ==
    {NoContents} \cup
    { Contents(s) : s \in UNION { [1..n -> PageElements] : n \in 0..MaxElems } }

PagePath == <<"group__foo.html">>

InitPage ==
    /\ contents \in Pages
    /\ gi = 1
    /\ records = <<>>
    /\ pstatus = "running"

\* next() reaches "for el in contents_el" with contents_el None.
ParseNoContents ==
    /\ pstatus = "running"
    /\ ~contents.found
    /\ pstatus' = "TypeError"
    /\ UNCHANGED <<contents, gi, records>>

\* One turn of the loop of parse: "yield from parse_section" of group gi.
ParseGroup ==
    /\ pstatus = "running"
    /\ contents.found
    /\ LET groups == Groups(contents.children) IN
          /\ gi <= Len(groups)
          /\ LET r == parse_section(groups[gi].name, groups[gi].elements, PagePath)
             IN  /\ records' = records \o r.records
                 /\ IF r.error # ""
                    THEN pstatus' = r.error /\ gi' = gi
                    ELSE pstatus' = pstatus /\ gi' = gi + 1
    /\ UNCHANGED contents

\* The groupby is exhausted: parse returns.
ParseReturn ==
    /\ pstatus = "running"
    /\ contents.found
    /\ gi > Len(Groups(contents.children))
    /\ pstatus' = "done"
    /\ UNCHANGED <<contents, gi, records>>

NextPage ==
    \/ ParseNoContents /\ UNCHANGED <<declVars, mainVars>>
    \/ ParseGroup /\ UNCHANGED <<declVars, mainVars>>
    \/ ParseReturn /\ UNCHANGED <<declVars, mainVars>>

InitSpecPage == InitPage /\ IdleDecl /\ IdleMain

SpecPage == InitSpecPage /\ [][NextPage]_vars

(***************************************************************************)
(* Properties of HTMLParser.parse, stated on the children of the page      *)
(* without the fold of the code.                                           *)
(***************************************************************************)
Ch == contents.children
G == Groups(Ch)

\* The section label in effect at child i: the text of the last header at or
\* before i, unset when there is none.
LabelAt(i) ==
    LET H == {j \in 1..i : Ch[j].name # None /\ "groupheader" \in Ch[j].class}
    IN  IF H = {} THEN None ELSE Ch[Max(H)].string

\* The first child of the maximal run of equal labels that holds child i.
RunStart(i) ==
    CHOOSE a \in 1..i :
        /\ \A j \in a..i : LabelAt(j) = LabelAt(i)
        /\ a > 1 => LabelAt(a - 1) # LabelAt(i)

\* The children that are declaration blocks of sections that are not skipped,
\* in document order.
DeclChildren ==
    { i \in 1..Len(Ch) :
        /\ Ch[i].name = "div" /\ "memitem" \in Ch[i].class
        /\ LabelAt(i) \notin {None, "Detailed Description"} }

KthDecl(k) == CHOOSE i \in DeclChildren : Cardinality({j \in DeclChildren : j < i}) = k - 1

\* The anchor markers that precede child i within its section.
AnchorsBefore(i) == { j \in RunStart(i)..(i - 1) : Ch[j].name = "a" }

\* The first child of group g of the groupby.
GroupStart(g) ==
    LET grp == G
        Sum[h \in 0..Len(grp)] == IF h = 0 THEN 0 ELSE Sum[h - 1] + Len(grp[h].elements)
    IN  1 + Sum[g - 1]

\* C2 as stated: every record's path is the page path plus "#" and the id of the
\* most recent anchor marker that precedes its declaration within the section,
\* and the bare page path when no anchor marker precedes it.
C2_PathIsLastAnchorId ==
    contents.found =>
        /\ Len(records) <= Cardinality(DeclChildren)
        /\ \A k \in 1..Len(records) :
              LET A == AnchorsBefore(KthDecl(k)) IN
              records[k].path =
                  IF A = {} THEN PagePath ELSE PagePath \o <<"#", Ch[Max(A)].id>>

\* C2 amended: every record's path is the page path plus "#" and the id of the
\* most recent anchor marker that precedes its declaration within the section
\* when that anchor has a non-empty id, and the bare page path when no anchor
\* marker precedes it or the most recent one has no id or an empty id; so an
\* anchor with a non-empty id followed by N declarations yields N records with
\* that anchor's fragment.
C2_PathIsLastAnchorIdIfNonEmpty ==
    contents.found =>
        /\ Len(records) <= Cardinality(DeclChildren)
        /\ \A k \in 1..Len(records) :
              LET A == AnchorsBefore(KthDecl(k)) IN
              records[k].path =
                  IF A = {} \/ Ch[Max(A)].id \in {None, ""}
                  THEN PagePath
                  ELSE PagePath \o <<"#", Ch[Max(A)].id>>

\* Three declarations' worth of the case within the bound: one anchor, then
\* two declarations with no anchor between them, both records carrying it.
C2_Witness ==
    /\ pstatus = "done"
    /\ Len(records) = 2
    /\ records[1].path = PagePath \o <<"#", "ga1">>
    /\ records[2].path = PagePath \o <<"#", "ga1">>
    /\ Cardinality({i \in 1..Len(Ch) : Ch[i].name = "a"}) = 1

\* C6: a group whose label is unset or is 'Detailed Description' yields no
\* record and raises nothing: the step that handles it leaves the records as
\* they are and goes on to the next group.
C6_SkippedSectionYieldsNothing ==
    [][ ( /\ pstatus = "running"
          /\ contents.found
          /\ gi <= Len(G)
          /\ G[gi].name \in {None, "Detailed Description"} )
        => ( records' = records /\ pstatus' = "running" /\ gi' = gi + 1 ) ]_vars

\* A 'Detailed Description' group holding an anchor and a declaration has
\* been handled, and nothing was yielded.
C6_Witness ==
    /\ pstatus = "running"
    /\ gi = 2
    /\ G[1].name = "Detailed Description"
    /\ \E i \in 1..Len(G[1].elements) : is_declaration(G[1].elements[i])
    /\ \E i \in 1..Len(G[1].elements) : is_anchor(G[1].elements[i])
    /\ records = <<>>

IsUnknownLabel(name) ==
    name \notin { None, "Detailed Description", "Function Documentation",
                  "Data Structure Documentation", "Typedef Documentation",
                  "Enumeration Type Documentation", "Macro Definition Documentation" }

\* C7: a section whose label is neither unset, nor skipped, nor a key of the
\* section-to-kind table is fatal: parse never gets past it and never returns,
\* the exception raised at it is the lookup error whether or not it holds a
\* declaration, and no record of that section (or of a later one) is yielded.
C7_UnknownLabelIsFatal ==
    contents.found =>
        LET grp == G IN
        \A g \in 1..Len(grp) :
            IsUnknownLabel(grp[g].name) =>
                /\ gi <= g
                /\ pstatus # "done"
                /\ (gi = g /\ pstatus # "running") => pstatus = "KeyError"
                /\ Len(records) <= Cardinality({i \in DeclChildren : i < GroupStart(g)})

\* The lookup error was raised at a section with no declaration block, after
\* an earlier section had yielded a record.
C7_Witness ==
    /\ pstatus = "KeyError"
    /\ IsUnknownLabel(G[gi].name)
    /\ \A i \in 1..Len(G[gi].elements) : ~is_declaration(G[gi].elements[i])
    /\ records # <<>>

\* C10: the groups are the maximal runs of children with the same current
\* label, in document order (runs of one label separated by another label stay
\* apart), and a record's fragment, if it has one, is the id of an anchor of
\* the record's own group that precedes its declaration.
C10_GroupsAreMaximalRuns ==
    contents.found =>
        LET grp == G
            start[g \in 1..Len(grp)] ==
                IF g = 1 THEN 1 ELSE start[g - 1] + Len(grp[g - 1].elements)
            label == [i \in 1..Len(Ch) |-> LabelAt(i)]
        IN  /\ \A g \in 1..Len(grp) :
                  /\ grp[g].elements # <<>>
                  /\ \A j \in 1..Len(grp[g].elements) :
                        /\ start[g] + j - 1 <= Len(Ch)
                        /\ grp[g].elements[j] = Ch[start[g] + j - 1]
                        /\ label[start[g] + j - 1] = grp[g].name
                  /\ g > 1 => grp[g].name # grp[g - 1].name
            /\ Len(grp) > 0 =>
                  start[Len(grp)] + Len(grp[Len(grp)].elements) - 1 = Len(Ch)
            /\ Len(grp) = 0 => Len(Ch) = 0
            /\ Len(records) <= Cardinality(DeclChildren)
            /\ \A k \in 1..Len(records) :
                  \/ records[k].path = PagePath
                  \/ \E j \in AnchorsBefore(KthDecl(k)) :
                        records[k].path = PagePath \o <<"#", Ch[j].id>>

\* Groups 1 and 3 have the same label and group 2 another; group 1 holds an
\* anchor with an id, and the record of group 2 has no fragment.
C10_Witness ==
    /\ pstatus = "done"
    /\ Len(G) = 3
    /\ G[1].name = G[3].name
    /\ G[2].name # G[1].name
    /\ \E i \in 1..Len(G[1].elements) :
          is_anchor(G[1].elements[i]) /\ G[1].elements[i].id = "ga1"
    /\ Len(records) = 1
    /\ records[1].path = PagePath

(***************************************************************************)
(* main: take_db, the extraction loop, the insert loop under "with db:".   *)
(***************************************************************************)
T_macro == S_define \o <<" ", "F", "O", "O", " ", "1">>

\* The pages of a run: each a page a Doxygen tree can hold.
MainPages ==
    { NoContents,
      Contents(<< Header("Function Documentation"), Anchor("ga1"), Decl(T_fn), Decl(T_fn) >>),
      Contents(<< Header("Function Documentation"), Decl(T_fn) >>),
      Contents(<< Header("Function Documentation"), Decl(T_fn),
                  Header("Variable Documentation") >>),
      Contents(<< Header("Function Documentation"), Anchor("ga1"), Decl(T_fn), Decl(T_bad) >>),
      Contents(<< Header("Function Documentation"), Decl(T_fn), DeclNoProto >>),
      Contents(<< Header("Detailed Description"), TextNode, Decl(T_fn) >>),
      Contents(<< Header("Macro Definition Documentation"), Anchor("ga2"), Decl(T_macro) >>) }

\* os.path.relpath(file_path, start=documents_path) of the i-th page.
PageNames ==
    << "Basalt/group__a.html", "Basalt/group__b.html", "Basalt/group__c.html",
       "Basalt/group__d.html" >>
relpath(i) == <<PageNames[i]>>

SameTriple(row, t) == row.name = t.name /\ row.type = t.type /\ row.path = t.path

\* INSERT INTO searchIndex(name, type, path) with no uniqueness in force.
INSERT_PLAIN(rows, t) ==
    Append(rows, [id |-> Len(rows) + 1, name |-> t.name, type |-> t.type, path |-> t.path])

\* INSERT OR IGNORE INTO searchIndex(name, type, path) under the unique index
\* anchor on (name, type, path); id INTEGER PRIMARY KEY takes the next rowid.
INSERT_QUERY_TEMPLATE(rows, t) ==
    IF \E r \in 1..Len(rows) : SameTriple(rows[r], t)
    THEN rows
    ELSE Append(rows, [id |-> IF rows = <<>> THEN 1 ELSE rows[Len(rows)].id + 1,
                       name |-> t.name, type |-> t.type, path |-> t.path])

InitMain ==
    /\ pc = "take_db"
    /\ file_path_list \in UNION { [1..n -> MainPages] : n \in 0..MaxPages }
    /\ fi = 1
    /\ insert_data_list = <<>>
    /\ ii = 1
    /\ searchIndex = <<>>
    /\ committed = <<>>

\* take_db: the table is dropped if there and created empty, and committed.
take_db ==
    /\ pc = "take_db"
    /\ searchIndex' = <<>>
    /\ committed' = <<>>
    /\ pc' = "extract"
    /\ UNCHANGED <<file_path_list, fi, insert_data_list, ii>>

\* A turn of the extraction loop that goes on to the next page whatever
\* the parser raised.
ExtractPageIgnoringErrors ==
    /\ pc = "extract"
    /\ fi <= Len(file_path_list)
    /\ insert_data_list' = insert_data_list \o parse(file_path_list[fi], relpath(fi)).records
    /\ fi' = fi + 1
    /\ UNCHANGED <<pc, file_path_list, ii, searchIndex, committed>>

\* One turn of the extraction loop: insert_data_list.extend(iter(p)); what the
\* parser raises leaves main.
ExtractPage ==
    /\ pc = "extract"
    /\ fi <= Len(file_path_list)
    /\ LET r == parse(file_path_list[fi], relpath(fi)) IN
          /\ insert_data_list' = insert_data_list \o r.records
          /\ IF r.error # ""
             THEN pc' = "extract_failed" /\ fi' = fi
             ELSE pc' = pc /\ fi' = fi + 1
    /\ UNCHANGED <<file_path_list, ii, searchIndex, committed>>

\* The extraction loop is over: "with db:" is entered.
BeginInsert ==
    /\ pc = "extract"
    /\ fi > Len(file_path_list)
    /\ pc' = "insert"
    /\ ii' = 1
    /\ UNCHANGED <<file_path_list, fi, insert_data_list, searchIndex, committed>>

\* A turn of the insert loop on a connection that commits every statement.
InsertRowAutocommit ==
    /\ pc = "insert"
    /\ ii <= Len(insert_data_list)
    /\ searchIndex' = INSERT_QUERY_TEMPLATE(searchIndex, insert_data_list[ii])
    /\ committed' = searchIndex'
    /\ ii' = ii + 1
    /\ UNCHANGED <<pc, file_path_list, fi, insert_data_list>>

\* One turn of the insert loop: db.execute(INSERT_QUERY_TEMPLATE, ...) inside
\* the transaction the first insert opened.
InsertRow ==
    /\ pc = "insert"
    /\ ii <= Len(insert_data_list)
    /\ searchIndex' = INSERT_QUERY_TEMPLATE(searchIndex, insert_data_list[ii])
    /\ ii' = ii + 1
    /\ UNCHANGED <<pc, file_path_list, fi, insert_data_list, committed>>

\* print or db.execute raises inside "with db:" (or the commit does): the
\* connection's __exit__ rolls the transaction back and the exception leaves main.
InsertFails ==
    /\ pc = "insert"
    /\ searchIndex' = committed
    /\ pc' = "insert_failed"
    /\ UNCHANGED <<file_path_list, fi, insert_data_list, ii, committed>>

\* The insert loop is over: the connection's __exit__ commits.
Commit ==
    /\ pc = "insert"
    /\ ii > Len(insert_data_list)
    /\ committed' = searchIndex
    /\ pc' = "done"
    /\ UNCHANGED <<file_path_list, fi, insert_data_list, ii, searchIndex>>

Next ==
    \/ take_db /\ UNCHANGED <<declVars, pageVars>>
    \/ ExtractPage /\ UNCHANGED <<declVars, pageVars>>
    \/ BeginInsert /\ UNCHANGED <<declVars, pageVars>>
    \/ InsertRow /\ UNCHANGED <<declVars, pageVars>>
    \/ InsertFails /\ UNCHANGED <<declVars, pageVars>>
    \/ Commit /\ UNCHANGED <<declVars, pageVars>>

Init == InitMain /\ IdleDecl /\ IdlePage

Spec == Init /\ [][Next]_vars

(***************************************************************************)
(* Properties of main.                                                     *)
(***************************************************************************)
Triple(r) == <<r.name, r.type, r.path>>
Triples(rows) == { Triple(rows[k]) : k \in 1..Len(rows) }

NoDuplicateRow(rows) ==
    \A a, b \in 1..Len(rows) :
        a # b => (Triple(rows[a]) # Triple(rows[b]) /\ rows[a].id # rows[b].id)

\* C1: whatever was inserted so far, the table holds exactly one row for each
\* distinct (name, type, path) inserted, so an insert of a triple already
\* there left the rows as they were; after the commit the same holds of the
\* durable table and the whole of insert_data_list.
C1_OneRowPerTriple ==
    /\ NoDuplicateRow(searchIndex)
    /\ NoDuplicateRow(committed)
    /\ pc = "insert" =>
          /\ Triples(searchIndex) = Triples(SubSeq(insert_data_list, 1, ii - 1))
          /\ Len(searchIndex) = Cardinality(Triples(SubSeq(insert_data_list, 1, ii - 1)))
    /\ pc = "done" =>
          /\ Triples(committed) = Triples(insert_data_list)
          /\ Len(committed) = Cardinality(Triples(insert_data_list))

\* A run of two pages ended with a repeated triple dropped: three records,
\* two rows.
C1_Witness ==
    /\ pc = "done"
    /\ Len(insert_data_list) = 3
    /\ Len(committed) = 2
    /\ \E a, b \in 1..3 : a # b /\ insert_data_list[a] = insert_data_list[b]

\* C3 as stated: a page with no div of class contents yields no record and
\* raises nothing, so extraction never fails at such a page.
C3_NoContentsIsNotAnError ==
    pc = "extract_failed" => file_path_list[fi].found

\* C4: a row is in the table, or the insert phase was entered, only after
\* every page was extracted without an exception; a run whose extraction
\* failed has inserted nothing, whatever it had collected.
C4_NoInsertBeforeExtractionEnds ==
    /\ (searchIndex # <<>> \/ committed # <<>> \/ pc \in {"insert", "insert_failed", "done"}) =>
          /\ fi = Len(file_path_list) + 1
          /\ \A i \in 1..Len(file_path_list) :
                parse(file_path_list[i], relpath(i)).error = ""
    /\ pc = "extract_failed" => (searchIndex = <<>> /\ committed = <<>>)

\* Extraction failed at the second page with records collected from the first
\* page and from the failing page.
C4_Witness ==
    /\ pc = "extract_failed"
    /\ fi = 2
    /\ \E k \in 1..Len(insert_data_list) : insert_data_list[k].path[1] = PageNames[1]
    /\ \E k \in 1..Len(insert_data_list) : insert_data_list[k].path[1] = PageNames[2]
    /\ searchIndex = <<>>

\* C5: the durable table is empty until the commit, which makes every
\* collected record durable at once; after a failure inside the insert loop
\* nothing inserted earlier in the loop remains.
C5_BatchIsAtomic ==
    /\ committed # <<>> => pc = "done"
    /\ pc = "done" => Triples(committed) = Triples(insert_data_list)
    /\ pc = "insert_failed" => (searchIndex = <<>> /\ committed = <<>>)

\* The insert loop failed after two rows had been inserted.
C5_Witness ==
    /\ pc = "insert_failed"
    /\ ii = 3
    /\ Cardinality(Triples(SubSeq(insert_data_list, 1, 2))) = 2
    /\ committed = <<>>

====
